---- MODULE Spec2Model ----
(***************************************************************************)
(* Mass-balance reconciliation over a flow network                         *)
(* (elphick.mass_composition: balance.py, mc_network.py).                  *)
(*                                                                         *)
(* Numbers.  Measured values are small integers: a dry mass in 1..MaxMass  *)
(* (the search moves it over 0..MaxMass), a grade in percent drawn from    *)
(* Grades (the search moves it over 0..MaxGrade).  A weight of the         *)
(* uncertainty table is kept in thousandths (1000 is 1.0, 100 is 0.1, 1 is *)
(* 0.001).  A pandas table is a sequence of rows in the table's row order. *)
(***************************************************************************)
EXTENDS Integers, Sequences, FiniteSets, TLC

\* ---------------------------------------------------------------- bounds
MaxMass == 2
MaxIter == 1

\* ------------------------------------------------------------- constants
NOMINAL_SD == 1000
TIGHT_SD == 100
LOCKED_SD == 1
GRADE_DIVISOR == 100

Grades == {GRADE_DIVISOR \div 2, GRADE_DIVISOR}
Masses == 1..MaxMass

\* columns of a stream's data, in column order; mass_wet is dropped by
\* balance.py wherever it builds xm, x0 and sd
DataCols == <<"mass_wet", "mass_dry", "Fe">>
NONE == "None"

\* ------------------------------------------------------- sequence helpers
Range(s) == {s[i] : i \in DOMAIN s}

RECURSIVE Flatten(_)
Flatten(ss) == IF ss = <<>> THEN <<>> ELSE Head(ss) \o Flatten(Tail(ss))

\* [col for col in df.columns if col != 'mass_wet']
NotWet(c) == c # "mass_wet"
cols == SelectSeq(DataCols, NotWet)

DropWet(vals) == [c \in Range(cols) |-> vals[c]]

\* ------------------------------------------------------------ the network
\* G.add_edge(u, v, mc=stream): both nodes are added on first sight, and an
\* edge that is already there keeps its place and takes the new stream
add_edge(G, u, v, mc) ==
    LET ns1 == IF u \in Range(G.nodes) THEN G.nodes ELSE Append(G.nodes, u)
        ns2 == IF v \in Range(ns1) THEN ns1 ELSE Append(ns1, v)
        Same(e) == e.u = u /\ e.v = v
    IN  [G EXCEPT
            !.nodes = ns2,
            !.adj   = IF \E i \in DOMAIN G.adj : Same(G.adj[i])
                      THEN [i \in DOMAIN G.adj |->
                              IF Same(G.adj[i]) THEN [G.adj[i] EXCEPT !.mc = mc]
                              ELSE G.adj[i]]
                      ELSE Append(G.adj, [u |-> u, v |-> v, mc |-> mc])]

RECURSIVE add_edges_from(_, _, _)
add_edges_from(G, ss, i) ==
    IF i > Len(ss) THEN G
    ELSE add_edges_from(add_edge(G, ss[i].nodes[1], ss[i].nodes[2], i), ss, i + 1)

\* self.edges(data=True): the nodes in node order, each with its successors
\* in the order their edges were added
edges(G) ==
    Flatten([k \in DOMAIN G.nodes |->
               LET From(e) == e.u = G.nodes[k] IN SelectSeq(G.adj, From)])

PosOf(seq, x) == CHOOSE i \in DOMAIN seq : seq[i] = x

\* nx.convert_node_labels_to_integers: node k of the node order becomes k-1
\* and keeps its attributes
convert_node_labels_to_integers(G) ==
    [nodes |-> [k \in DOMAIN G.nodes |-> k - 1],
     adj   |-> [i \in DOMAIN edges(G) |->
                  [u  |-> PosOf(G.nodes, edges(G)[i].u) - 1,
                   v  |-> PosOf(G.nodes, edges(G)[i].v) - 1,
                   mc |-> edges(G)[i].mc]],
     mc    |-> [n \in {k - 1 : k \in DOMAIN G.nodes} |-> G.mc[G.nodes[n + 1]]]]

\* a graph: the nodes in the order they were added, the edges in the order
\* they were added, and the 'mc' attribute of the nodes that have one
EmptyGraph == [nodes |-> <<>>, adj |-> <<>>, mc |-> <<>>]

\* lines 56-63: one node object per node, given the streams on the edges
\* into the node and out of it as they are at this moment
d_node_objects(graph) ==
    [node \in Range(graph.nodes) |->
        LET Into(e) == e.v = node
            OutOf(e) == e.u = node
            ins == SelectSeq(edges(graph), Into)
            outs == SelectSeq(edges(graph), OutOf)
        IN  [inputs  |-> [i \in DOMAIN ins |-> ins[i].mc],
             outputs |-> [i \in DOMAIN outs |-> outs[i].mc]]]

\* MCNetwork.from_streams: the graph with its node objects, renumbered
from_streams(ss) ==
    LET graph == add_edges_from(EmptyGraph, ss, 1)
    IN  convert_node_labels_to_integers([graph EXCEPT !.mc = d_node_objects(graph)])

\* the streams after from_streams: each stream on an edge has its nodes set
\* to the renumbered pair
RenumberedStreams(ss) ==
    LET G == from_streams(ss)
    IN  [i \in DOMAIN ss |->
           IF \E j \in DOMAIN G.adj : G.adj[j].mc = i
           THEN LET e == G.adj[CHOOSE j \in DOMAIN G.adj : G.adj[j].mc = i]
                IN  [ss[i] EXCEPT !.nodes = <<e.u, e.v>>]
           ELSE ss[i]]

\* ------------------------------------------------------------------ state
VARIABLES
    streams,     \* the MassComposition objects: [name, nodes, data], data one row per record of index
    index,       \* the record keys shared by the streams, in index order
    mcn,         \* MCBalance.mcn: the graph [nodes, adj, mc]
    node_type,   \* node id -> "BALANCE" or "OTHER" (MCNode.node_type)
    sd,          \* MCBalance.sd: the held uncertainty table
    pc,          \* "idle" between calls, "loop" inside optimise's loop over the records
    ret,         \* the last call: its name, its arguments and what it returned (<<>> when it raised)
    err,         \* the exception the last call raised ("none" when it did not)
    d_cost_fns,  \* optimise: the closures still to be minimised, in dict order
    df_measured, \* optimise: the measured tidy table read at line 175
    chunks,      \* optimise: the per-record result tables appended so far
    calls,       \* history: record key -> minimize calls made in the current run
    flags,       \* history: record key -> the success flag of the record's OptimizeResult
    edits,       \* history: writes made to the measured data and to the held table
    last_run     \* history: the inputs and the result of the last optimise run completed with the held table

vars == <<streams, index, mcn, node_type, sd, pc, ret, err, d_cost_fns,
          df_measured, chunks, calls, flags, edits, last_run>>

\* ------------------------------------------------------- network queries
Sum(f, S) ==
    LET RECURSIVE S_(_)
        S_(T) == IF T = {} THEN 0 ELSE LET x == CHOOSE y \in T : TRUE IN f[x] + S_(T \ {x})
    IN  S_(S)

\* MCNetwork.get_edge_names
get_edge_names(G, ss) == [i \in DOMAIN edges(G) |-> ss[edges(G)[i].mc].name]

\* [d for n, d in self.degree()]: the total degree of each node, in node order
degrees(G) ==
    [k \in DOMAIN G.nodes |->
        Cardinality({i \in DOMAIN G.adj : G.adj[i].u = G.nodes[k]})
      + Cardinality({i \in DOMAIN G.adj : G.adj[i].v = G.nodes[k]})]

\* degrees[u]: the list is indexed by the node id
degree_at(G, u) == degrees(G)[u + 1]

\* MCNetwork.get_input_edges / get_output_edges (the streams, as arena indexes)
get_input_edges(G) ==
    LET IsIn(e) == degree_at(G, e.u) = 1
        sel == SelectSeq(edges(G), IsIn)
    IN  [i \in DOMAIN sel |-> sel[i].mc]

get_output_edges(G) ==
    LET IsOut(e) == degree_at(G, e.v) = 1
        sel == SelectSeq(edges(G), IsOut)
    IN  [i \in DOMAIN sel |-> sel[i].mc]

\* MCNetwork.get_node_input_outputs: the streams on the edges into and out of a node
get_node_input_outputs(G, n) ==
    LET Into(e) == e.v = n
        OutOf(e) == e.u = n
        ins == SelectSeq(edges(G), Into)
        outs == SelectSeq(edges(G), OutOf)
    IN  <<[i \in DOMAIN ins |-> ins[i].mc], [i \in DOMAIN outs |-> outs[i].mc]>>

\* MCNetwork.to_dataframe: one chunk per edge, the chunk's rows in record
\* order, indexed by (record key, stream name)
to_dataframe(G, ss, idx) ==
    Flatten([i \in DOMAIN edges(G) |->
               [r \in DOMAIN idx |->
                  [key  |-> idx[r],
                   name |-> ss[edges(G)[i].mc].name,
                   vals |-> ss[edges(G)[i].mc].data[r]]]])

\* MassComposition.aggregate: total mass and mass-weighted mean grade
aggregate(s) ==
    LET R == DOMAIN s.data
        dry == Sum([r \in R |-> s.data[r]["mass_dry"]], R)
    IN  [c \in Range(DataCols) |->
           IF c \in {"mass_wet", "mass_dry"} THEN Sum([r \in R |-> s.data[r][c]], R)
           ELSE IF dry = 0 THEN 0
           ELSE Sum([r \in R |-> s.data[r][c] * s.data[r]["mass_dry"]], R) \div dry]

\* MCNetwork.report: one row per edge, indexed by the stream name
report(G, ss) ==
    [i \in DOMAIN edges(G) |->
       [name |-> ss[edges(G)[i].mc].name, vals |-> aggregate(ss[edges(G)[i].mc])]]

\* --------------------------------------------------- the uncertainty table
\* df_sd.loc[strm, :] = tight_sd for every name of the list, in turn
set_rows(table, names, w) ==
    [i \in DOMAIN table |->
       IF table[i].name \in names
       THEN [table[i] EXCEPT !.vals = [c \in DOMAIN table[i].vals |-> w]]
       ELSE table[i]]

\* create_balance_config with the locked flag dropped: the tight weight is always 0.1
create_balance_config_unlocked(G, ss, best_measurements, best_locked) ==
    LET rpt == report(G, ss)
        df_sd == [i \in DOMAIN rpt |->
                    [name |-> rpt[i].name, vals |-> [c \in Range(cols) |-> NOMINAL_SD]]]
        NamesOf(mcs) == {ss[mcs[i]].name : i \in DOMAIN mcs}
    IN  IF best_measurements \in {NONE, ""} THEN <<"none", df_sd>>
        ELSE IF best_measurements = "input"
             THEN <<"none", set_rows(df_sd, NamesOf(get_input_edges(G)), TIGHT_SD)>>
        ELSE IF best_measurements = "output"
             THEN <<"none", set_rows(df_sd, NamesOf(get_output_edges(G)), TIGHT_SD)>>
        ELSE <<"KeyError", NONE>>

\* create_balance_config with the two edge lists taken for each other
create_balance_config_swapped(G, ss, best_measurements, best_locked) ==
    LET rpt == report(G, ss)
        df_sd == [i \in DOMAIN rpt |->
                    [name |-> rpt[i].name, vals |-> [c \in Range(cols) |-> NOMINAL_SD]]]
        tight_sd == IF best_locked THEN LOCKED_SD ELSE TIGHT_SD
        NamesOf(mcs) == {ss[mcs[i]].name : i \in DOMAIN mcs}
    IN  IF best_measurements \in {NONE, ""} THEN <<"none", df_sd>>
        ELSE IF best_measurements = "input"
             THEN <<"none", set_rows(df_sd, NamesOf(get_output_edges(G)), tight_sd)>>
        ELSE IF best_measurements = "output"
             THEN <<"none", set_rows(df_sd, NamesOf(get_input_edges(G)), tight_sd)>>
        ELSE <<"KeyError", NONE>>

\* MCBalance.create_balance_config: <<exception, returned table>>.  A falsy
\* best_measurements (None or the empty string) skips the whole if block.
create_balance_config(G, ss, best_measurements, best_locked) ==
    LET rpt == report(G, ss)
        df_sd == [i \in DOMAIN rpt |->
                    [name |-> rpt[i].name, vals |-> [c \in Range(cols) |-> NOMINAL_SD]]]
        tight_sd == IF best_locked THEN LOCKED_SD ELSE TIGHT_SD
        NamesOf(mcs) == {ss[mcs[i]].name : i \in DOMAIN mcs}
    IN  IF best_measurements \in {NONE, ""} THEN <<"none", df_sd>>
        ELSE IF best_measurements = "input"
             THEN <<"none", set_rows(df_sd, NamesOf(get_input_edges(G)), tight_sd)>>
        ELSE IF best_measurements = "output"
             THEN <<"none", set_rows(df_sd, NamesOf(get_output_edges(G)), tight_sd)>>
        ELSE <<"KeyError", NONE>>

\* ------------------------------------------------------- the cost function
\* A cost is kept exactly: fin is the finite part times SCALE, big counts
\* the cells that nan_to_num set to the largest float (an infinite square).
\* SCALE is the least common multiple of the squares a cell divides by.
\* a grade is a percentage; the grid of the grades has the step of half the range
MaxGrade == GRADE_DIVISOR
GRADE_STEP == MaxGrade \div 2

RECURSIVE GCD(_, _)
GCD(a, b) == IF b = 0 THEN a ELSE GCD(b, a % b)
LCM(a, b) == (a * b) \div GCD(a, b)
RECURSIVE LcmSquares(_)
LcmSquares(n) == IF n <= 1 THEN 1 ELSE LCM(n * n, LcmSquares(n - 1))
Max(a, b) == IF a >= b THEN a ELSE b
SCALE == LcmSquares(Max(MaxMass, MaxGrade \div GRADE_STEP))

\* the grid unit of column j of cols (1-based): a mass moves by 1, a grade by GRADE_STEP
Unit(j) == IF cols[j] = "mass_dry" THEN 1 ELSE GRADE_STEP
Top(j) == IF cols[j] = "mass_dry" THEN MaxMass ELSE MaxGrade

\* xm.ravel(), sd.ravel(): row-major
ravel(a2d) == Flatten(a2d)
\* x.reshape(xm.shape)
reshape(x, nrows, ncols) ==
    [i \in 1..nrows |-> [j \in 1..ncols |-> x[(i - 1) * ncols + j]]]

\* one cell of nan_to_num(((xm - x) / (x * sd)) ** 2); w is sd in thousandths.
\* x * sd = 0 gives 0/0 = nan -> 0 when xm = x, and inf -> the largest float otherwise
fit_cell(xm_v, x_v, w, unit) ==
    IF x_v * w = 0
    THEN (IF xm_v = x_v THEN [big |-> 0, fin |-> 0] ELSE [big |-> 1, fin |-> 0])
    ELSE LET d == (xm_v - x_v) \div unit
             q == x_v \div unit
         IN  [big |-> 0,
              fin |-> (SCALE \div (q * q)) * (d * d) * ((1000 * 1000) \div (w * w))]

\* x_mass in which every grade is scaled by the dry mass of the first row
x_mass2_first_row(x_2d) ==
    [i \in DOMAIN x_2d |->
       [j \in DOMAIN x_2d[i] |->
          IF j = 1 THEN 2 * x_2d[i][1]
          ELSE (2 * x_2d[i][j] * x_2d[1][1]) \div GRADE_DIVISOR]]

\* x_mass, doubled to stay in the integers: column 1 is 2 * mass_dry, column
\* j > 1 is 2 * (grade_j * mass_dry / 100) of the same row
x_mass2(x_2d) ==
    [i \in DOMAIN x_2d |->
       [j \in DOMAIN x_2d[i] |->
          IF j = 1 THEN 2 * x_2d[i][1]
          ELSE (2 * x_2d[i][j] * x_2d[i][1]) \div GRADE_DIVISOR]]

\* x_mass[ins, :].sum(axis=0)[j], doubled; positions are 0-based
col_sum2(xm2, poss, j) == Sum([k \in DOMAIN poss |-> xm2[poss[k] + 1][j]], DOMAIN poss)

\* the balance term of the dry mass alone, the component masses left out
balance_term_mass_only(xm2, io, ncols) ==
    LET d2 == col_sum2(xm2, io[1], 1) - col_sum2(xm2, io[2], 1)
    IN  (SCALE \div 4) * d2 * d2

\* nan_to_num((mass_in_sum - x_mass[outs, :].sum(axis=0)) ** 2).sum(), times SCALE
balance_term(xm2, io, ncols) ==
    Sum([j \in 1..ncols |->
           LET d2 == col_sum2(xm2, io[1], j) - col_sum2(xm2, io[2], j)
           IN  (SCALE \div 4) * d2 * d2], 1..ncols)

\* float addition: one largest-float cell absorbs every finite term, two overflow to inf
norm_cost(big, fin) ==
    IF big = 0 THEN [big |-> 0, fin |-> fin]
    ELSE [big |-> (IF big >= 2 THEN 2 ELSE 1), fin |-> 0]

\* cost_fn(x, xm, sd, node_relationships)
cost_fn(x, xm, sd_values, node_relationships) ==
    LET nrows == Len(xm)
        ncols == Len(cols)
        xmr == ravel(xm)
        sdr == ravel(sd_values)
        cells == [p \in DOMAIN x |->
                    fit_cell(xmr[p], x[p], sdr[p], Unit(((p - 1) % ncols) + 1))]
        x_2d == reshape(x, nrows, ncols)
        xm2 == x_mass2(x_2d)
        bal == Sum([n \in DOMAIN node_relationships |->
                      balance_term(xm2, node_relationships[n], ncols)],
                   DOMAIN node_relationships)
    IN  norm_cost(Sum([p \in DOMAIN x |-> cells[p].big], DOMAIN x),
                  Sum([p \in DOMAIN x |-> cells[p].fin], DOMAIN x) + bal)

cost_less(a, b) == a.big < b.big \/ (a.big = b.big /\ a.fin < b.fin)

\* ----------------------------------------------------------- the minimizer
\* scipy.optimize.minimize(fn, x0, method='nelder-mead'): a derivative-free
\* local search, here on the grid of the measured values.  One iteration
\* moves to the best strictly better grid neighbour; the search has
\* converged when no neighbour is better, and gives up after MaxIter moves.
Moves(x, ncols) ==
    {m \in (DOMAIN x) \X {-1, 1} :
        LET j == ((m[1] - 1) % ncols) + 1
            y == x[m[1]] + m[2] * Unit(j)
        IN  y >= 0 /\ y <= Top(j)}

Step(x, m, ncols) == [x EXCEPT ![m[1]] = @ + m[2] * Unit(((m[1] - 1) % ncols) + 1)]

\* moves are tried coordinate by coordinate, down before up
move_before(m1, m2) == m1[1] < m2[1] \/ (m1[1] = m2[1] /\ m1[2] < m2[2])

RECURSIVE search(_, _, _)
search(fn, x, nit) ==
    LET ncols == Len(cols)
        here == cost_fn(x, fn.xm, fn.sd, fn.node_relationships)
        M == Moves(x, ncols)
        c == [m \in M |-> cost_fn(Step(x, m, ncols), fn.xm, fn.sd, fn.node_relationships)]
        better == {m \in M : cost_less(c[m], here)}
        best == CHOOSE m \in better :
                    \A m2 \in better \ {m} :
                        cost_less(c[m], c[m2]) \/ (c[m] = c[m2] /\ move_before(m, m2))
    IN  IF better = {} THEN [x |-> x, success |-> TRUE, nit |-> nit]
        ELSE IF nit >= MaxIter THEN [x |-> x, success |-> FALSE, nit |-> nit]
        ELSE search(fn, Step(x, best, ncols), nit + 1)

\* a minimize that starts from the origin, not from x0
minimize_from_origin(fn, x0) == search(fn, [i \in DOMAIN x0 |-> 0], 0)

\* res = minimize(fn, x0, ...): the OptimizeResult
minimize(fn, x0) == search(fn, x0, 0)

\* --------------------------------------------------------- table helpers
\* df.values: the rows as arrays, columns in the order of cols
values(df) == [i \in DOMAIN df |-> [j \in DOMAIN cols |-> df[i].vals[cols[j]]]]

\* df.loc[k, cols]: the rows of record k, in table order, without mass_wet
loc_record(df, k) ==
    LET IsK(row) == row.key = k
        sel == SelectSeq(df, IsK)
    IN  [i \in DOMAIN sel |-> [sel[i] EXCEPT !.vals = DropWet(@)]]

Label(row) == <<row.key, row.name>>

\* df.loc[labels, :]: for every label in turn, the rows that carry it
loc_labels(df, labels) ==
    Flatten([i \in DOMAIN labels |->
               LET Has(row) == Label(row) = labels[i] IN SelectSeq(df, Has)])

\* ------------------------------------------------ _create_cost_functions
\* stream_map = {n: i for i, n in enumerate(get_edge_names())}: a later
\* edge of the same name takes the name's entry
stream_map(G, ss) ==
    LET names == get_edge_names(G, ss)
    IN  [n \in Range(names) |->
           (CHOOSE i \in DOMAIN names :
               names[i] = n /\ \A j \in DOMAIN names : names[j] = n => j <= i) - 1]

\* every node taken for a BALANCE node, the node type not looked at
balance_nodes_all(G, nt) == G.nodes

\* the BALANCE nodes, in node order
balance_nodes(G, nt) ==
    LET IsBal(n) == nt[n] = "BALANCE" IN SelectSeq(G.nodes, IsBal)

\* node_ins_outs with the comprehension over the inputs written twice
node_ins_outs_inputs_twice(G, ss, nt) ==
    LET bn == balance_nodes(G, nt)
        sm == stream_map(G, ss)
    IN  [k \in DOMAIN bn |->
           LET io == get_node_input_outputs(G, bn[k])
           IN  <<[i \in DOMAIN io[1] |-> sm[ss[io[1][i]].name]],
                 [i \in DOMAIN io[1] |-> sm[ss[io[1][i]].name]]>>]

\* node_ins_outs: per BALANCE node the positions of its input and of its
\* output streams, looked up by stream name
node_ins_outs(G, ss, nt) ==
    LET bn == balance_nodes(G, nt)
        sm == stream_map(G, ss)
    IN  [k \in DOMAIN bn |->
           LET io == get_node_input_outputs(G, bn[k])
           IN  <<[i \in DOMAIN io[1] |-> sm[ss[io[1][i]].name]],
                 [o \in DOMAIN io[2] |-> sm[ss[io[2][o]].name]]>>]

\* _create_cost_functions that leaves the last record of the index out
create_cost_functions_short(G, ss, idx, nt, held_sd) ==
    IF Len(get_input_edges(G)) = 0 THEN <<"IndexError", <<>>>>
    ELSE LET df_network == to_dataframe(G, ss, idx)
             nio == node_ins_outs(G, ss, nt)
         IN  <<"none",
               [r \in 1..(Len(idx) - 1) |->
                  [key |-> idx[r],
                   fn  |-> [xm |-> values(loc_record(df_network, idx[r])),
                            sd |-> values(held_sd),
                            node_relationships |-> nio]]]>>

\* _create_cost_functions whose closures all see the loop variable's last
\* value: every record is fitted to the measured rows of the last record
create_cost_functions_late(G, ss, idx, nt, held_sd) ==
    IF Len(get_input_edges(G)) = 0 THEN <<"IndexError", <<>>>>
    ELSE LET df_network == to_dataframe(G, ss, idx)
             nio == node_ins_outs(G, ss, nt)
         IN  <<"none",
               [r \in DOMAIN idx |->
                  [key |-> idx[r],
                   fn  |-> [xm |-> values(loc_record(df_network, idx[Len(idx)])),
                            sd |-> values(held_sd),
                            node_relationships |-> nio]]]>>

\* _create_cost_functions: <<exception, d_fns>>, d_fns the (key, closure)
\* pairs in dict order.  The record keys are read from the first input edge.
create_cost_functions(G, ss, idx, nt, held_sd) ==
    IF Len(get_input_edges(G)) = 0 THEN <<"IndexError", <<>>>>
    ELSE LET df_network == to_dataframe(G, ss, idx)
             nio == node_ins_outs(G, ss, nt)
         IN  <<"none",
               [r \in DOMAIN idx |->
                  [key |-> idx[r],
                   fn  |-> [xm |-> values(loc_record(df_network, idx[r])),
                            sd |-> values(held_sd),
                            node_relationships |-> nio]]]>>

\* ------------------------------------------------------------ the inputs
MaxEdits == 1

\* the node pairs of the streams handed to from_streams, stream by stream
Flowsheets ==
    { << <<5, 7>>, <<6, 7>>, <<7, 8>> >>,     \* two feeds mixed into one product
      << <<0, 1>>, <<1, 2>>, <<2, 3>> >>,     \* a chain through two nodes
      << <<0, 1>>, <<1, 2>>, <<1, 3>> >>,     \* one feed split into two products
      << <<0, 1>>, <<0, 2>> >>,               \* two streams out of one node
      << <<0, 1>> >> }                        \* a single stream

Indexes == { <<1, 2>>, <<2, 1>> }
UniqueNames == <<"A", "B", "C">>
NameLists == { UniqueNames }

Row(dry, fe) == [mass_wet |-> dry + 1, mass_dry |-> dry, Fe |-> fe]
Rows == {Row(m, g) : m \in Masses, g \in Grades}
\* the rows a later measurement may bring
NewRows == {Row(MaxMass, GRADE_STEP)}

\* the measured data of the i-th stream at construction, one row per record
BaseData(i) ==
    IF i = 1 THEN <<Row(2, GRADE_STEP), Row(1, MaxGrade)>>
    ELSE IF i = 2 THEN <<Row(2, GRADE_STEP), Row(1, GRADE_STEP)>>
    ELSE <<Row(1, GRADE_STEP), Row(2, MaxGrade)>>

StreamsOf(fs, names) ==
    [i \in DOMAIN fs |-> [name |-> names[i], nodes |-> fs[i], data |-> BaseData(i)]]

\* the nodes with a stream in and a stream out: all of them are BALANCE
\* nodes, or none is
Interior(G) ==
    {n \in Range(G.nodes) :
        /\ \E i \in DOMAIN G.adj : G.adj[i].v = n
        /\ \E i \in DOMAIN G.adj : G.adj[i].u = n}

NodeTypings(G) ==
    {[n \in Range(G.nodes) |-> IF n \in B THEN "BALANCE" ELSE "OTHER"] : B \in {{}, Interior(G)}}

\* optimise has not returned: it is running, or it raised
NoReturn == [of |-> "nothing", args |-> <<>>, value |-> <<>>]

NoRun == [data |-> <<>>, sd |-> <<>>, nio |-> <<>>, result |-> <<>>]

\* MCBalance(MCNetwork.from_streams(streams)): the held table is the
\* table of create_balance_config(best_measurements='input')
InitWith(names_set) ==
    \E fs \in Flowsheets, names \in names_set, idx \in Indexes :
        LET ss == StreamsOf(fs, names)
            G == from_streams(ss)
        IN  /\ streams = RenumberedStreams(ss)
            /\ index = idx
            /\ mcn = G
            /\ node_type \in NodeTypings(G)
            /\ sd = create_balance_config(G, RenumberedStreams(ss), "input", FALSE)[2]
            /\ pc = "idle"
            /\ ret = NoReturn
            /\ err = "none"
            /\ d_cost_fns = <<>>
            /\ df_measured = <<>>
            /\ chunks = <<>>
            /\ calls = [k \in Range(idx) |-> 0]
            /\ flags = [k \in Range(idx) |-> "unset"]
            /\ edits = 0
            /\ last_run = NoRun

Init == InitWith(NameLists)

\* from_streams takes any names: the networks in which two streams share one
DupNameLists == { <<"A", "A", "C">>, <<"A", "B", "A">> }
InitDupNames == InitWith(DupNameLists)

\* --------------------------------------------------------------- actions
Policies == {NONE, "", "input", "output", "inputs"}

\* a create_balance_config that also keeps the table it returns as the held one
CreateBalanceConfigStoring ==
    /\ pc = "idle"
    /\ edits < MaxEdits
    /\ \E bm \in Policies, locked \in BOOLEAN :
          LET r == create_balance_config(mcn, streams, bm, locked)
          IN  /\ err' = r[1]
              /\ ret' = [of |-> "create_balance_config", args |-> <<bm, locked>>,
                          value |-> IF r[1] = "none" THEN r[2] ELSE <<>>]
              /\ sd' = IF r[1] = "none" THEN r[2] ELSE sd
    /\ UNCHANGED <<streams, index, mcn, node_type, pc, d_cost_fns,
                   df_measured, chunks, calls, flags, edits, last_run>>

\* a call of create_balance_config: returns a table or raises; the held
\* table is not touched.  The calls are made while the session is being set
\* up, that is while a write is still to come.
CreateBalanceConfig ==
    /\ pc = "idle"
    /\ edits < MaxEdits
    /\ \E bm \in Policies, locked \in BOOLEAN :
          LET r == create_balance_config(mcn, streams, bm, locked)
          IN  /\ err' = r[1]
              /\ ret' = [of |-> "create_balance_config", args |-> <<bm, locked>>,
                          value |-> IF r[1] = "none" THEN r[2] ELSE <<>>]
    /\ UNCHANGED <<streams, index, mcn, node_type, sd, pc, d_cost_fns,
                   df_measured, chunks, calls, flags, edits, last_run>>

\* mcb.sd = <the table just returned>
AssignSd ==
    /\ pc = "idle"
    /\ edits < MaxEdits
    /\ ret.of = "create_balance_config"
    /\ err = "none"
    /\ sd' = ret.value
    /\ edits' = edits + 1
    /\ last_run' = NoRun
    /\ UNCHANGED <<streams, index, mcn, node_type, pc, ret, err, d_cost_fns,
                   df_measured, chunks, calls, flags>>

\* mcb.sd.loc[name, :] = w: the caller writes a weight into a row of the held table
Weights == {0, -TIGHT_SD}
WriteWeight ==
    /\ pc = "idle"
    /\ edits < MaxEdits
    /\ \E i \in DOMAIN sd, w \in Weights :
          sd' = set_rows(sd, {sd[i].name}, w)
    /\ edits' = edits + 1
    /\ last_run' = NoRun
    /\ UNCHANGED <<streams, index, mcn, node_type, pc, ret, err, d_cost_fns,
                   df_measured, chunks, calls, flags>>

\* new measurements arrive for one record of one stream
WriteMeasured ==
    /\ pc = "idle"
    /\ edits < MaxEdits
    /\ \E i \in DOMAIN streams, r \in DOMAIN index, row \in NewRows :
          /\ streams[i].data[r] # row
          /\ streams' = [streams EXCEPT ![i].data[r] = row]
    /\ edits' = edits + 1
    /\ UNCHANGED <<index, mcn, node_type, sd, pc, ret, err, d_cost_fns,
                   df_measured, chunks, calls, flags, last_run>>

\* optimise, lines 174-178: the closures, the measured table, no chunks yet
OptimiseStart ==
    /\ pc = "idle"
    /\ LET r == create_cost_functions(mcn, streams, index, node_type, sd)
       IN  /\ err' = r[1]
           /\ d_cost_fns' = r[2]
           /\ pc' = IF r[1] = "none" THEN "loop" ELSE "idle"
           /\ df_measured' = IF r[1] = "none" THEN to_dataframe(mcn, streams, index) ELSE <<>>
    /\ ret' = NoReturn
    /\ chunks' = <<>>
    /\ calls' = [k \in DOMAIN calls |-> 0]
    /\ flags' = [k \in DOMAIN flags |-> "unset"]
    /\ UNCHANGED <<streams, index, mcn, node_type, sd, edits, last_run>>

\* df_res that keeps the first stream's row only
df_res_of_first(k, df_x0, res) ==
    LET x_2d == reshape(res.x, Len(df_x0), Len(cols))
    IN  [i \in {1} |->
           [key  |-> k,
            name |-> df_x0[i].name,
            vals |-> [c \in Range(cols) |-> x_2d[i][PosOf(cols, c)]]]]

\* df_res of one record: res.x reshaped, indexed by the stream names of
\* df_x0, with the record key assigned
df_res_of(k, df_x0, res) ==
    LET x_2d == reshape(res.x, Len(df_x0), Len(cols))
    IN  [i \in DOMAIN df_x0 |->
           [key  |-> k,
            name |-> df_x0[i].name,
            vals |-> [c \in Range(cols) |-> x_2d[i][PosOf(cols, c)]]]]

\* one pass of the loop that also writes the reconciled values back into
\* the data of the streams
OptimiseRecordWriteBack ==
    /\ pc = "loop"
    /\ d_cost_fns # <<>>
    /\ LET k == Head(d_cost_fns).key
           fn == Head(d_cost_fns).fn
           df_x0 == loc_record(df_measured, k)
           res == minimize(fn, ravel(values(df_x0)))
           df_res == df_res_of(k, df_x0, res)
           r == PosOf(index, k)
       IN  /\ chunks' = Append(chunks, df_res)
           /\ calls' = [calls EXCEPT ![k] = @ + 1]
           /\ flags' = [flags EXCEPT ![k] = IF res.success THEN "converged" ELSE "failed"]
           /\ streams' = [i \in DOMAIN streams |->
                            IF \E j \in DOMAIN df_res : edges(mcn)[j].mc = i
                            THEN LET j == CHOOSE j \in DOMAIN df_res : edges(mcn)[j].mc = i
                                 IN  [streams[i] EXCEPT !.data[r] =
                                        [c \in DOMAIN @ |->
                                           IF c \in Range(cols) THEN df_res[j].vals[c] ELSE @[c]]]
                            ELSE streams[i]]
    /\ d_cost_fns' = Tail(d_cost_fns)
    /\ UNCHANGED <<index, mcn, node_type, sd, pc, ret, err,
                   df_measured, edits, last_run>>

\* optimise, lines 179-187: one pass of the loop
OptimiseRecord ==
    /\ pc = "loop"
    /\ d_cost_fns # <<>>
    /\ LET k == Head(d_cost_fns).key
           fn == Head(d_cost_fns).fn
           df_x0 == loc_record(df_measured, k)
           res == minimize(fn, ravel(values(df_x0)))
       IN  /\ chunks' = Append(chunks, df_res_of(k, df_x0, res))
           /\ calls' = [calls EXCEPT ![k] = @ + 1]
           /\ flags' = [flags EXCEPT ![k] = IF res.success THEN "converged" ELSE "failed"]
    /\ d_cost_fns' = Tail(d_cost_fns)
    /\ UNCHANGED <<streams, index, mcn, node_type, sd, pc, ret, err,
                   df_measured, edits, last_run>>

\* the result without line 189: the chunks in the order they were appended
optimise_result_unsorted(cs, measured) == Flatten(cs)

\* optimise, lines 188-190: pd.concat(chunks), indexed by (key, name), then
\* .loc[df_measured.index, :]
optimise_result(cs, measured) ==
    loc_labels(Flatten(cs), [i \in DOMAIN measured |-> Label(measured[i])])

OptimiseReturn ==
    /\ pc = "loop"
    /\ d_cost_fns = <<>>
    /\ pc' = "idle"
    /\ ret' = [of |-> "optimise", args |-> <<>>, value |-> optimise_result(chunks, df_measured)]
    /\ last_run' = [data |-> df_measured, sd |-> sd,
                    nio |-> node_ins_outs(mcn, streams, node_type),
                    result |-> optimise_result(chunks, df_measured)]
    /\ df_measured' = <<>>
    /\ chunks' = <<>>
    /\ UNCHANGED <<streams, index, mcn, node_type, sd, err, d_cost_fns,
                   calls, flags, edits>>

Next ==
    \/ CreateBalanceConfig
    \/ AssignSd
    \/ WriteWeight
    \/ WriteMeasured
    \/ OptimiseStart
    \/ OptimiseRecord
    \/ OptimiseReturn

Spec == Init /\ [][Next]_vars

SpecDupNames == InitDupNames /\ [][Next]_vars

\* a pass of the for loop, seen on the closures still to run: OptimiseRecord
\* is the one step of Next that takes the head off d_cost_fns, and it can be
\* taken whenever a closure is left
LoopPass ==
    /\ pc = "loop"
    /\ d_cost_fns # <<>>
    /\ d_cost_fns' = Tail(d_cost_fns)

\* optimise is straight-line code around one for loop in one thread: once
\* called, each pass of the loop and the return are taken
SpecLive ==
    Init /\ [][Next]_vars /\ WF_d_cost_fns(LoopPass) /\ WF_vars(OptimiseReturn)

\* ------------------------------------- a table assigned in another row order
Reverse(s) == [i \in DOMAIN s |-> s[Len(s) + 1 - i]]

\* mcb.sd = <the table just returned>.iloc[::-1]: the same rows, last row first
AssignSdReordered ==
    /\ pc = "idle"
    /\ edits < MaxEdits
    /\ ret.of = "create_balance_config"
    /\ err = "none"
    /\ sd' = Reverse(ret.value)
    /\ edits' = edits + 1
    /\ last_run' = NoRun
    /\ UNCHANGED <<streams, index, mcn, node_type, pc, ret, err, d_cost_fns,
                   df_measured, chunks, calls, flags>>

NextHeld == Next \/ AssignSdReordered

SpecHeld == Init /\ [][NextHeld]_vars

\* ------------------------------------------------ the cost closure, called
\* measured data with cells that are exactly 0 (a grade, a dry mass)
ZeroData(i) ==
    IF i = 1 THEN <<Row(2, 0), Row(1, MaxGrade)>>
    ELSE IF i = 2 THEN <<Row(1, GRADE_STEP), Row(0, 0)>>
    ELSE <<Row(1, 0), Row(2, GRADE_STEP)>>

StreamsWith(fs, names, zero) ==
    [i \in DOMAIN fs |->
       [name |-> names[i], nodes |-> fs[i],
        data |-> IF zero THEN ZeroData(i) ELSE BaseData(i)]]

InitCost ==
    \E fs \in Flowsheets, idx \in Indexes, zero \in BOOLEAN :
        LET ss == StreamsWith(fs, UniqueNames, zero)
            G == from_streams(ss)
        IN  /\ streams = RenumberedStreams(ss)
            /\ index = idx
            /\ mcn = G
            /\ node_type \in NodeTypings(G)
            /\ sd = create_balance_config(G, RenumberedStreams(ss), "input", FALSE)[2]
            /\ pc = "idle"
            /\ ret = NoReturn
            /\ err = "none"
            /\ d_cost_fns = <<>>
            /\ df_measured = <<>>
            /\ chunks = <<>>
            /\ calls = [k \in Range(idx) |-> 0]
            /\ flags = [k \in Range(idx) |-> "unset"]
            /\ edits = 0
            /\ last_run = NoRun

\* the points within n moves of the points of X
RECURSIVE Reach(_, _)
Reach(X, n) ==
    IF n = 0 THEN X
    ELSE Reach(X \cup UNION {{Step(x, m, Len(cols)) : m \in Moves(x, Len(cols))} : x \in X},
               n - 1)

\* the locals of cost_fn when it returns costs
cost_locals(x, xm, sd_values, node_relationships) ==
    LET ncols == Len(cols)
        xmr == ravel(xm)
        sdr == ravel(sd_values)
        xm2 == x_mass2(reshape(x, Len(xm), ncols))
    IN  [cost_mass_grades |->
            [p \in DOMAIN x |-> fit_cell(xmr[p], x[p], sdr[p], Unit(((p - 1) % ncols) + 1))],
         x_mass |-> xm2,
         cost_component_balance |->
            [n \in DOMAIN node_relationships |->
               balance_term(xm2, node_relationships[n], ncols)],
         costs |-> cost_fn(x, xm, sd_values, node_relationships)]

\* the first call of the closure of one record, at a point the minimizer can
\* come to: the search moves MaxIter times at most and looks one move further
CostFnCall ==
    /\ pc = "idle"
    /\ ret = NoReturn
    /\ LET r == create_cost_functions(mcn, streams, index, node_type, sd)
       IN  /\ r[1] = "none"
           /\ \E i \in DOMAIN r[2] :
                LET fn == r[2][i].fn
                IN  \E x \in Reach({ravel(fn.xm)}, MaxIter + 1) :
                      ret' = [of    |-> "cost_fn",
                              args  |-> <<x, fn.xm, fn.sd, fn.node_relationships>>,
                              value |-> cost_locals(x, fn.xm, fn.sd, fn.node_relationships)]
    /\ UNCHANGED <<streams, index, mcn, node_type, sd, pc, err, d_cost_fns,
                   df_measured, chunks, calls, flags, edits, last_run>>

NextCost == CostFnCall

SpecCost == InitCost /\ [][NextCost]_vars

\* ------------------------------------------------- the network, edited
\* MCNetwork is a nx.DiGraph: its add_edge and remove_edge are there for the
\* caller.  A node id given to add_edge is one of the graph, the next free
\* one, or the one after that.
EditNodes(G) == Range(G.nodes) \cup {Len(G.nodes), Len(G.nodes) + 1}

\* the stream a caller puts on a new edge
NewStream(u, v) == [name |-> "D", nodes |-> <<u, v>>, data |-> BaseData(1)]

\* G.remove_edge(u, v): the edge goes, its nodes stay
remove_edge(G, u, v) ==
    LET Other(e) == ~(e.u = u /\ e.v = v)
    IN  [G EXCEPT !.adj = SelectSeq(@, Other)]

\* the other variables of a call on the network alone
NetworkFrame ==
    UNCHANGED <<index, node_type, sd, pc, d_cost_fns, df_measured, chunks,
                calls, flags, last_run>>

\* mcn.add_edge(u, v, mc=stream)
AddEdge ==
    /\ pc = "idle"
    /\ edits < MaxEdits
    /\ \E u, v \in EditNodes(mcn) :
          /\ u # v
          /\ streams' = Append(streams, NewStream(u, v))
          /\ mcn' = add_edge(mcn, u, v, Len(streams) + 1)
          /\ ret' = [of |-> "add_edge", args |-> <<u, v>>, value |-> <<>>]
    /\ err' = "none"
    /\ edits' = edits + 1
    /\ NetworkFrame

\* mcn.remove_edge(u, v)
RemoveEdge ==
    /\ pc = "idle"
    /\ edits < MaxEdits
    /\ \E i \in DOMAIN mcn.adj :
          /\ mcn' = remove_edge(mcn, mcn.adj[i].u, mcn.adj[i].v)
          /\ ret' = [of |-> "remove_edge", args |-> <<mcn.adj[i].u, mcn.adj[i].v>>,
                      value |-> <<>>]
    /\ err' = "none"
    /\ edits' = edits + 1
    /\ UNCHANGED streams
    /\ NetworkFrame

\* mcn.get_input_edges(): degrees[u] is read for every edge in turn, and a
\* node id past the end of the list raises
GetInputEdges ==
    /\ pc = "idle"
    /\ LET raises == \E i \in DOMAIN mcn.adj : mcn.adj[i].u + 1 \notin DOMAIN degrees(mcn)
       IN  /\ err' = IF raises THEN "IndexError" ELSE "none"
           /\ ret' = [of |-> "get_input_edges", args |-> <<>>,
                       value |-> IF raises THEN <<>> ELSE get_input_edges(mcn)]
    /\ UNCHANGED <<streams, mcn, edits>>
    /\ NetworkFrame

\* mcn.get_output_edges(): the same with degrees[v]
GetOutputEdges ==
    /\ pc = "idle"
    /\ LET raises == \E i \in DOMAIN mcn.adj : mcn.adj[i].v + 1 \notin DOMAIN degrees(mcn)
       IN  /\ err' = IF raises THEN "IndexError" ELSE "none"
           /\ ret' = [of |-> "get_output_edges", args |-> <<>>,
                       value |-> IF raises THEN <<>> ELSE get_output_edges(mcn)]
    /\ UNCHANGED <<streams, mcn, edits>>
    /\ NetworkFrame

\* mcn.get_node_input_outputs(n)
GetNodeInputOutputs ==
    /\ pc = "idle"
    /\ \E n \in Range(mcn.nodes) :
          ret' = [of |-> "get_node_input_outputs", args |-> <<n>>,
                  value |-> get_node_input_outputs(mcn, n)]
    /\ err' = "none"
    /\ UNCHANGED <<streams, mcn, edits>>
    /\ NetworkFrame

\* mcn.nodes[n]['mc'].inputs, .outputs: the lists of the node object, which
\* is what balanced and imbalance_report go through
NodeObjectLists ==
    /\ pc = "idle"
    /\ \E n \in DOMAIN mcn.mc :
          ret' = [of |-> "node_object", args |-> <<n>>,
                  value |-> <<mcn.mc[n].inputs, mcn.mc[n].outputs>>]
    /\ err' = "none"
    /\ UNCHANGED <<streams, mcn, edits>>
    /\ NetworkFrame

NextEdit ==
    \/ AddEdge
    \/ RemoveEdge
    \/ GetInputEdges
    \/ GetOutputEdges
    \/ GetNodeInputOutputs
    \/ NodeObjectLists

SpecEdit == Init /\ [][NextEdit]_vars

\* ------------------------------------------------------------------ claims
StreamNames == {streams[mcn.adj[i].mc].name : i \in DOMAIN mcn.adj}
ComponentCols == {"mass_dry", "Fe"}
Returned(fname) == pc = "idle" /\ ret.of = fname /\ err = "none"

\* the streams whose origin node has total degree 1, and those whose
\* destination node has total degree 1
DegreeOf(n) == Cardinality({i \in DOMAIN mcn.adj : mcn.adj[i].u = n})
             + Cardinality({i \in DOMAIN mcn.adj : mcn.adj[i].v = n})
InputNames == {streams[mcn.adj[i].mc].name : i \in {j \in DOMAIN mcn.adj : DegreeOf(mcn.adj[j].u) = 1}}
OutputNames == {streams[mcn.adj[i].mc].name : i \in {j \in DOMAIN mcn.adj : DegreeOf(mcn.adj[j].v) = 1}}

TrustedNames(policy) ==
    IF policy = "input" THEN InputNames
    ELSE IF policy = "output" THEN OutputNames
    ELSE {}

\* C1: for the policies none, trust-inputs and trust-outputs and either
\* locked flag, the table create_balance_config returns has exactly one row
\* per stream name, exactly the columns mass_dry and the grades (no
\* mass_wet), 0.001 (locked) or 0.1 (not locked) in every cell of a trusted
\* row and 1.0 in every other cell
C1_ConfigTable ==
    (Returned("create_balance_config") /\ ret.args[1] \in {NONE, "input", "output"}) =>
        LET t == ret.value
            tight == IF ret.args[2] THEN LOCKED_SD ELSE TIGHT_SD
        IN  /\ {t[i].name : i \in DOMAIN t} = StreamNames
            /\ \A i, j \in DOMAIN t : t[i].name = t[j].name => i = j
            /\ \A i \in DOMAIN t :
                  /\ DOMAIN t[i].vals = ComponentCols
                  /\ \A c \in ComponentCols :
                        t[i].vals[c] = IF t[i].name \in TrustedNames(ret.args[1])
                                       THEN tight ELSE NOMINAL_SD

\* a locked trust-inputs table with a trusted and an untrusted row
C1_Witness ==
    /\ Returned("create_balance_config")
    /\ ret.args = <<"input", TRUE>>
    /\ \E i, j \in DOMAIN ret.value :
          /\ ret.value[i].vals["mass_dry"] = LOCKED_SD
          /\ ret.value[j].vals["Fe"] = NOMINAL_SD

\* C2: a call with a policy string that is none of the recognized values,
\* the empty string included, raises and returns no table
C2_InvalidPolicyRaises ==
    (pc = "idle" /\ ret.of = "create_balance_config"
        /\ ret.args[1] \notin {NONE, "input", "output"}) =>
        (err = "KeyError" /\ ret.value = <<>>)

\* C3: with a zero or negative cell in the held uncertainty table the run
\* fails before the minimizer is invoked for any record
BadWeight == \E i \in DOMAIN sd : \E c \in DOMAIN sd[i].vals : sd[i].vals[c] <= 0
C3_InvalidWeightRaises ==
    BadWeight => ~(pc = "loop" /\ \E k \in DOMAIN calls : calls[k] > 0)

\* the layout positions (0-based) of the streams on the edges into and out of node n
PositionsInto(n) == {p - 1 : p \in {q \in DOMAIN edges(mcn) : edges(mcn)[q].v = n}}
PositionsOutOf(n) == {p - 1 : p \in {q \in DOMAIN edges(mcn) : edges(mcn)[q].u = n}}

\* C4: when the cost functions are built without an error, no input or output
\* stream of a BALANCE node is left out of the node's index lists or mapped
\* to the position of another stream
C4_NoSilentMisindex ==
    (pc = "loop" /\ d_cost_fns # <<>>) =>
        LET nr == Head(d_cost_fns).fn.node_relationships
            bn == balance_nodes(mcn, node_type)
        IN  /\ Len(nr) = Len(bn)
            /\ \A k \in DOMAIN bn :
                  /\ Range(nr[k][1]) = PositionsInto(bn[k])
                  /\ Range(nr[k][2]) = PositionsOutOf(bn[k])

MeasuredLabels ==
    LET m == to_dataframe(mcn, streams, index) IN [i \in DOMAIN m |-> Label(m[i])]

\* C5: the rows of the table optimise returns are in the (record key,
\* stream name) order of the measured tidy table, whatever the order in
\* which the records were minimised and their chunks appended
C5_RowOrder ==
    Returned("optimise") =>
        [i \in DOMAIN ret.value |-> Label(ret.value[i])] = MeasuredLabels

\* a result of several streams and records: two neighbouring rows are the
\* two records of one stream, which no order of appending whole-record chunks gives
C5_Witness ==
    /\ Returned("optimise")
    /\ Cardinality(StreamNames) >= 2
    /\ \E i \in DOMAIN ret.value : i + 1 \in DOMAIN ret.value
          /\ ret.value[i].name = ret.value[i + 1].name
          /\ ret.value[i].key # ret.value[i + 1].key

\* C6: the result has exactly one row for every (record, stream) pair, no
\* other row, and exactly the columns mass_dry and the grades
C6_ResultIndex ==
    Returned("optimise") =>
        /\ \A k \in Range(index), n \in StreamNames :
              Cardinality({j \in DOMAIN ret.value : Label(ret.value[j]) = <<k, n>>}) = 1
        /\ \A j \in DOMAIN ret.value :
              /\ ret.value[j].key \in Range(index)
              /\ ret.value[j].name \in StreamNames
              /\ DOMAIN ret.value[j].vals = ComponentCols

C6_Witness ==
    /\ Returned("optimise")
    /\ Cardinality(StreamNames) = 3
    /\ Len(ret.value) = 3 * Len(index)

\* C7: no step of optimise changes the measured data of a stream, the
\* record index, the topology, the node types or the held uncertainty table
C7_OptimiseFrame ==
    [][(OptimiseStart \/ OptimiseRecord \/ OptimiseReturn) =>
          /\ streams' = streams
          /\ index' = index
          /\ mcn' = mcn
          /\ node_type' = node_type
          /\ sd' = sd]_vars

\* a run has returned reconciled values that differ from the measured ones,
\* and the streams still hold the measured ones
C7_Witness ==
    /\ Returned("optimise")
    /\ edits = 0
    /\ last_run.data = to_dataframe(mcn, streams, index)
    /\ \E i \in DOMAIN ret.value : ret.value[i].vals # DropWet(last_run.data[i].vals)

\* a row carries a marker when it has a column besides the components
Marked(row) == DOMAIN row.vals # ComponentCols

\* C8: the result marks every record whose minimisation did not converge
C8_FailureMarked ==
    Returned("optimise") =>
        \A k \in Range(index) :
            flags[k] = "failed" =>
                \E j \in DOMAIN ret.value : ret.value[j].key = k /\ Marked(ret.value[j])

\* C9: in one run the minimizer is invoked exactly once for each record
\* key: at most once at any time, once for every record already passed in
\* the loop, and once for every record when optimise returns
C9_OneCallPerRecord ==
    /\ \A k \in DOMAIN calls : calls[k] <= 1
    /\ pc = "loop" =>
          \A k \in Range(index) :
              calls[k] = IF \E i \in DOMAIN d_cost_fns : d_cost_fns[i].key = k THEN 0 ELSE 1
    /\ Returned("optimise") => \A k \in Range(index) : calls[k] = 1

\* a returned run with a record that converged and one that did not
C9_Witness ==
    /\ Returned("optimise")
    /\ \E k1, k2 \in Range(index) : flags[k1] = "converged" /\ flags[k2] = "failed"

RowsOf(df, k) == LET IsK(row) == row.key = k IN SelectSeq(df, IsK)

\* C10: a record whose measured rows are the same as in the last completed
\* run, under the same table and the same index lists, gets the same
\* reconciled rows, whatever the measured values of the other records
C10_RecordIndependence ==
    (/\ pc = "loop"
     /\ last_run # NoRun
     /\ last_run.sd = sd
     /\ last_run.nio = node_ins_outs(mcn, streams, node_type)) =>
        \A c \in DOMAIN chunks :
            LET k == chunks[c][1].key
            IN  RowsOf(df_measured, k) = RowsOf(last_run.data, k) =>
                    chunks[c] = RowsOf(last_run.result, k)

\* a second run in which another record was measured anew and this record,
\* measured as before, has been moved off its measured values again
C10_Witness ==
    /\ pc = "loop"
    /\ last_run # NoRun
    /\ last_run.sd = sd
    /\ \E c \in DOMAIN chunks :
          LET k == chunks[c][1].key
          IN  /\ RowsOf(df_measured, k) = RowsOf(last_run.data, k)
              /\ \E k2 \in Range(index) : RowsOf(df_measured, k2) # RowsOf(last_run.data, k2)
              /\ \E i \in DOMAIN chunks[c] :
                    chunks[c][i].vals # DropWet(RowsOf(df_measured, k)[i].vals)

\* the closure has been called: its arguments and its locals
Called == ret.of = "cost_fn"
ArgX == ret.args[1]
ArgXm == ravel(ret.args[2])
ArgSd == ravel(ret.args[3])
NoCost == [big |-> 0, fin |-> 0]

\* C11: where a cell is measured as exactly 0, the cost is finite at every
\* point the minimizer evaluates and the cell adds 0 to the fit term there
C11_ZeroMeasuredCell ==
    Called =>
        \A p \in DOMAIN ArgX :
            ArgXm[p] = 0 =>
                /\ ret.value.costs.big < 2
                /\ ret.value.cost_mass_grades[p] = NoCost

\* C18: a cell whose ((xm - x) / (x * sd))^2 is not finite, NaN (x = 0 = xm)
\* or infinite (x = 0 # xm), adds exactly 0 to the fit term
C18_NonFiniteCellIsZero ==
    Called =>
        \A p \in DOMAIN ArgX :
            ArgX[p] * ArgSd[p] = 0 => ret.value.cost_mass_grades[p] = NoCost

\* twice the component mass of column j of the stream at layout position i
\* (0-based), from the flat x: the dry mass itself, grade * dry mass / 100
CompMass2(x, i, j) ==
    LET dry == x[i * Len(cols) + 1]
    IN  IF j = 1 THEN 2 * dry ELSE (2 * x[i * Len(cols) + j] * dry) \div GRADE_DIVISOR

BalanceNodes == {n \in Range(mcn.nodes) : node_type[n] = "BALANCE"}

\* (sum of the rows into node n - sum of the rows out of it)^2 over the columns
NodeTerm(x, n) ==
    Sum([j \in DOMAIN cols |->
           LET In2 == Sum([i \in PositionsInto(n) |-> CompMass2(x, i, j)], PositionsInto(n))
               Out2 == Sum([i \in PositionsOutOf(n) |-> CompMass2(x, i, j)], PositionsOutOf(n))
           IN  (SCALE \div 4) * (In2 - Out2) * (In2 - Out2)], DOMAIN cols)

\* C19: the cost is the fit term plus, once for every BALANCE node of the
\* network, the sum over the columns of (inputs - outputs)^2 of the component
\* masses; a stream between two BALANCE nodes is in the term of both
C19_BalanceTerm ==
    (Called /\ ret.value.costs.big = 0) =>
        /\ Len(ret.value.cost_component_balance) = Cardinality(BalanceNodes)
        /\ ret.value.costs.fin =
              Sum([p \in DOMAIN ArgX |-> ret.value.cost_mass_grades[p].fin], DOMAIN ArgX)
            + Sum([n \in BalanceNodes |-> NodeTerm(ArgX, n)], BalanceNodes)

\* two BALANCE nodes with a stream from the one to the other, both out of
\* balance in a component mass only
C19_Witness ==
    /\ Called
    /\ ret.value.costs.big = 0
    /\ Cardinality(BalanceNodes) = 2
    /\ \E n1, n2 \in BalanceNodes : PositionsOutOf(n1) \cap PositionsInto(n2) # {}
    /\ \A n \in BalanceNodes :
          /\ NodeTerm(ArgX, n) > 0
          /\ \E p \in PositionsInto(n), q \in PositionsOutOf(n) :
                CompMass2(ArgX, p, 1) = CompMass2(ArgX, q, 1)

\* C20: row i of x_mass keeps the dry mass of stream i in column 0 and holds
\* grade_j * mass_dry / 100 of the same stream in every other column j
C20_ComponentMass ==
    Called =>
        \A i \in DOMAIN ret.value.x_mass :
            \A j \in DOMAIN cols :
                ret.value.x_mass[i][j] = CompMass2(ArgX, i - 1, j)

\* two streams of different dry mass, the later one with a grade above 0
C20_Witness ==
    /\ Called
    /\ \E i \in DOMAIN ret.value.x_mass :
          /\ i > 1
          /\ ret.value.x_mass[i][1] # ret.value.x_mass[1][1]
          /\ ret.value.x_mass[i][2] > 0

\* the flat vector of record k in a tidy table of the run
FlatOf(df, k) == ravel(values(RowsOf(df, k)))

\* C12: in a network without a BALANCE node no closure is given a balance
\* pair, so the cost is the fit term alone, and optimise returns the
\* measured value for every stream and component
C12_FitOnly ==
    BalanceNodes = {} =>
        /\ pc = "loop" =>
              \A i \in DOMAIN d_cost_fns : d_cost_fns[i].fn.node_relationships = <<>>
        /\ last_run # NoRun =>
              \A i \in DOMAIN last_run.result :
                  last_run.result[i].vals = DropWet(last_run.data[i].vals)

\* a completed run on a network whose interior node is out of balance in
\* the measured values and is not a BALANCE node
C12_Witness ==
    /\ last_run # NoRun
    /\ BalanceNodes = {}
    /\ \E n \in Interior(mcn), k \in Range(index) : NodeTerm(FlatOf(last_run.data, k), n) > 0
    /\ \A i \in DOMAIN last_run.result :
          last_run.result[i].vals = DropWet(last_run.data[i].vals)

\* C13: at a BALANCE node with two inputs and one output the reconciled
\* values of a converged record are in balance, in the dry mass and in the
\* component mass (on the grid of the values: the difference is 0)
C13_ConservationReached ==
    (Returned("optimise") /\ last_run # NoRun) =>
        \A k \in Range(index), n \in BalanceNodes :
            (/\ flags[k] = "converged"
             /\ Cardinality(PositionsInto(n)) = 2
             /\ Cardinality(PositionsOutOf(n)) = 1) =>
                NodeTerm(FlatOf(last_run.result, k), n) = 0

Abs(a) == IF a < 0 THEN -a ELSE a

\* how far the reconciled row of stream name is from its measured row in
\* record k of the last run, in steps of the grid
Dev(k, name) ==
    LET Is(row) == row.key = k /\ row.name = name
        res == SelectSeq(last_run.result, Is)[1].vals
        meas == SelectSeq(last_run.data, Is)[1].vals
    IN  Sum([j \in DOMAIN cols |-> Abs(res[cols[j]] - meas[cols[j]]) \div Unit(j)], DOMAIN cols)

NameAt(p) == get_edge_names(mcn, streams)[p + 1]

C15_AbandonedMarked ==
    Returned("optimise") =>
        \A k \in Range(index) :
            flags[k] = "failed" =>
                /\ \A k2 \in Range(index) : calls[k2] = 1
                /\ \A j \in DOMAIN ret.value :
                      ret.value[j].key = k => Marked(ret.value[j])

NamesIn(df) == [i \in DOMAIN df |-> df[i].name]

\* C16: while optimise runs, row i of the held table, row i of every
\* record's measured rows and of every result chunk, and stream_index i are
\* the same stream, whatever table is held
C16_RowAlignment ==
    pc = "loop" =>
        LET names == get_edge_names(mcn, streams)
        IN  /\ NamesIn(sd) = names
            /\ \A k \in Range(index) : NamesIn(RowsOf(df_measured, k)) = names
            /\ \A c \in DOMAIN chunks : NamesIn(chunks[c]) = names
            /\ \A i \in DOMAIN names : stream_map(mcn, streams)[names[i]] = i - 1

\* C17: every closure is given exactly one (inputs, outputs) pair for each
\* BALANCE node and no other pair; the pair's inputs are the layout positions
\* of the streams into the node, its outputs those of the streams out of it,
\* each position once
C17_IndexLists ==
    pc = "loop" =>
        \A c \in DOMAIN d_cost_fns :
            LET nr == d_cost_fns[c].fn.node_relationships
                Fits(k, n) ==
                    /\ Range(nr[k][1]) = PositionsInto(n)
                    /\ Range(nr[k][2]) = PositionsOutOf(n)
                    /\ Len(nr[k][1]) = Cardinality(PositionsInto(n))
                    /\ Len(nr[k][2]) = Cardinality(PositionsOutOf(n))
            IN  /\ Len(nr) = Cardinality(BalanceNodes)
                /\ \A n \in BalanceNodes : Cardinality({k \in DOMAIN nr : Fits(k, n)}) = 1

\* the closures of a network with a BALANCE node of two inputs beside nodes
\* that are not BALANCE nodes
C17_Witness ==
    /\ pc = "loop"
    /\ d_cost_fns # <<>>
    /\ BalanceNodes # {}
    /\ BalanceNodes # Range(mcn.nodes)
    /\ \E n \in BalanceNodes : Cardinality(PositionsInto(n)) = 2

\* C21: on every network with a stream the builder raises nothing and gives
\* one closure per record key of the index, none for another key, and the
\* closure of key k holds the measured rows of record k, stream by stream
C21_ClosurePerRecord ==
    /\ (mcn.adj # <<>>) => err # "IndexError"
    /\ (pc = "loop" /\ chunks = <<>>) =>
          /\ Len(d_cost_fns) = Len(index)
          /\ {d_cost_fns[i].key : i \in DOMAIN d_cost_fns} = Range(index)
          /\ \A i \in DOMAIN d_cost_fns :
                LET r == PosOf(index, d_cost_fns[i].key)
                IN  d_cost_fns[i].fn.xm =
                       [e \in DOMAIN edges(mcn) |->
                          [j \in DOMAIN cols |-> streams[edges(mcn)[e].mc].data[r][cols[j]]]]

\* C25: the stream_map the builder works with gives every edge of the
\* network its own layout position, also when two streams have one name
C25_StreamMapBijection ==
    pc = "loop" =>
        LET names == get_edge_names(mcn, streams)
            sm == stream_map(mcn, streams)
        IN  /\ Cardinality(DOMAIN sm) = Len(names)
            /\ \A i, j \in DOMAIN names : i # j => sm[names[i]] # sm[names[j]]

\* C26: until the first explicit assignment the held table is the unlocked
\* trust-inputs table (0.1 in the rows of the input streams, 1.0 elsewhere);
\* the held table changes only in a step that is an explicit assignment, so
\* never in a call of create_balance_config; and the closures of optimise
\* carry the held table
C26_HeldTable ==
    /\ [](/\ ((edits = 0) =>
                /\ [i \in DOMAIN sd |-> sd[i].name] = get_edge_names(mcn, streams)
                /\ \A i \in DOMAIN sd :
                      /\ DOMAIN sd[i].vals = ComponentCols
                      /\ \A c \in ComponentCols :
                            sd[i].vals[c] = IF sd[i].name \in InputNames
                                            THEN TIGHT_SD ELSE NOMINAL_SD)
           /\ ((pc = "loop") =>
                \A k \in DOMAIN d_cost_fns :
                    d_cost_fns[k].fn.sd =
                       [i \in DOMAIN sd |-> [j \in DOMAIN cols |-> sd[i].vals[cols[j]]]]))
    /\ [][sd' # sd => (edits' = edits + 1 /\ ret' = ret)]_vars

\* create_balance_config has returned a table that is not the held one, the
\* held one still being the table of construction
C26_Witness ==
    /\ Returned("create_balance_config")
    /\ ret.args = <<"output", TRUE>>
    /\ ret.value # sd
    /\ edits = 0
    /\ \E i \in DOMAIN sd : sd[i].vals["mass_dry"] = TIGHT_SD

\* the streams on the edges that leave a node of total degree 1, and on the
\* edges that arrive at one
DegreeInputs == {mcn.adj[i].mc : i \in {j \in DOMAIN mcn.adj : DegreeOf(mcn.adj[j].u) = 1}}
DegreeOutputs == {mcn.adj[i].mc : i \in {j \in DOMAIN mcn.adj : DegreeOf(mcn.adj[j].v) = 1}}

\* C22: on every network, edited or not, get_input_edges returns exactly the
\* streams whose origin node has total degree 1 and get_output_edges exactly
\* those whose destination node has total degree 1, and neither raises
C22_DegreeEdges ==
    /\ ret.of = "get_input_edges" =>
          /\ err = "none"
          /\ Range(ret.value) = DegreeInputs
          /\ Len(ret.value) = Cardinality(DegreeInputs)
    /\ ret.of = "get_output_edges" =>
          /\ err = "none"
          /\ Range(ret.value) = DegreeOutputs
          /\ Len(ret.value) = Cardinality(DegreeOutputs)

\* the streams now directed into node n, and out of it
StreamsInto(n) == {mcn.adj[i].mc : i \in {j \in DOMAIN mcn.adj : mcn.adj[j].v = n}}
StreamsOutOf(n) == {mcn.adj[i].mc : i \in {j \in DOMAIN mcn.adj : mcn.adj[j].u = n}}

\* C23: whatever edges were added and removed, the input and output streams
\* reported for a node, by the network or by the node's object, are the
\* streams now directed into and out of the node
C23_NodeSetsCurrent ==
    ret.of \in {"get_node_input_outputs", "node_object"} =>
        /\ Range(ret.value[1]) = StreamsInto(ret.args[1])
        /\ Range(ret.value[2]) = StreamsOutOf(ret.args[1])

\* the closure of record k of the last completed run
ClosureOf(k) ==
    [xm |-> values(loc_record(last_run.data, k)),
     sd |-> values(last_run.sd),
     node_relationships |-> last_run.nio]

\* no neighbour of x costs less than x under the closure fn
Settled(fn, x) ==
    \A m \in Moves(x, Len(cols)) :
        ~cost_less(cost_fn(Step(x, m, Len(cols)), fn.xm, fn.sd, fn.node_relationships),
                   cost_fn(x, fn.xm, fn.sd, fn.node_relationships))

\* C24: the values returned for a record lie within the iteration budget of
\* that record's measured vector; the search of a record stopped because no
\* step improves (converged) or because the budget was used up with a better
\* step still there (failed); and a running optimise returns
C24_StartsAndStops ==
    /\ []((Returned("optimise") /\ last_run # NoRun) =>
            \A k \in Range(index) :
                LET x0 == FlatOf(last_run.data, k)
                    x == FlatOf(last_run.result, k)
                IN  /\ x \in Reach({x0}, MaxIter)
                    /\ flags[k] \in {"converged", "failed"}
                    /\ flags[k] = "converged" <=> Settled(ClosureOf(k), x)
                    /\ flags[k] = "failed" => x \notin Reach({x0}, MaxIter - 1))
    /\ ((pc = "loop") ~> Returned("optimise"))

\* a run has returned in which the search of one record used up its budget
\* away from the measured vector and the search of another converged
C24_Witness ==
    /\ Returned("optimise")
    /\ last_run # NoRun
    /\ \E k1, k2 \in Range(index) :
          /\ flags[k1] = "failed"
          /\ FlatOf(last_run.result, k1) # FlatOf(last_run.data, k1)
          /\ flags[k2] = "converged"

====
